---- MODULE Spec2Model ----
(***************************************************************************)
(* State-machine model of the housewarming gift list / RSVP single-page    *)
(* app (src/App.tsx, src/constants.ts, src/types.ts).                      *)
(*                                                                         *)
(* The React state of App, the state of the mounted UserAuthModal and the  *)
(* five localStorage documents are the variables; every handler is one     *)
(* action (React runs a handler to completion before the next event).      *)
(*                                                                         *)
(* Representation:                                                         *)
(*   - null / undefined / an absent localStorage key is the empty tuple,   *)
(*     a present value v is the one-element tuple <<v>>;                   *)
(*   - an optional object property (Gift.link?, Gift.reservedBy?) is       *)
(*     either missing from the record's DOMAIN (no own property) or holds  *)
(*     such a tuple (own property, possibly undefined);                    *)
(*   - phone numbers, ids and URLs are sequences of characters, so that    *)
(*     maskPhone, phoneRegex and Number.toString are computed;             *)
(*   - a form number is <<n>>, NaN is <<>>.                                *)
(***************************************************************************)
EXTENDS Integers, Sequences, FiniteSets, TLC

\* ------------------------------------------------------------------ bounds

\* Date.now() reads ClockStart..MaxNow (milliseconds; far above the seed ids).
ClockStart == 5
MaxNow == 6
\* The catalog holds at most MaxAdds added gifts at a time (MaxCatalogAdds
\* where reservations and sessions are explored with it).
MaxAdds == 2
MaxCatalogAdds == 1
\* A stored guest list holds at most MaxRecords records.
MaxRecords == 3

\* ------------------------------------------------------------- JS values

Null == <<>>
Undefined == <<>>
NaN == <<>>
Some(v) == <<v>>
Num(n) == <<n>>

Min(a, b) == IF a < b THEN a ELSE b

\* obj.key read in JavaScript: undefined when there is no such own property.
Prop(obj, key) == IF key \in DOMAIN obj THEN obj[key] ELSE Undefined

\* { ...obj, ...patch }: the patch's properties win, the others are kept.
Spread(obj, patch) == patch @@ obj

\* The properties the types declare optional: the only ones that can hold
\* undefined (types.ts: Gift.link?, Gift.reservedBy?, EventConfig.locationLink?).
OptionalProps == {"link", "reservedBy", "locationLink"}

\* JSON.parse(JSON.stringify(obj)) of a flat object: properties whose value
\* is undefined are not serialized, every other property survives.
JSONObject(obj) ==
  [k \in {f \in DOMAIN obj : ~(f \in OptionalProps /\ obj[f] = Undefined)} |-> obj[k]]

\* JSON.parse(JSON.stringify(list)) of an array of flat objects.
JSONArray(list) == [i \in 1..Len(list) |-> JSONObject(list[i])]

\* String.prototype.slice(a, b) for 0 <= a <= b (b is clamped to the length).
slice(s, a, b) == SubSeq(s, a + 1, Min(b, Len(s)))

Digits == <<"0", "1", "2", "3", "4", "5", "6", "7", "8", "9">>

IsDigit(ch) == \E i \in 1..10 : Digits[i] = ch

\* Number.prototype.toString() of a natural number, as its decimal digits.
RECURSIVE toString(_)
toString(n) ==
  IF n < 10 THEN <<Digits[n + 1]>>
  ELSE toString(n \div 10) \o <<Digits[(n % 10) + 1]>>

\* ------------------------------------------------ helpers and schemas

\* /^\(\d{2}\) \d{5}-\d{4}$/.test(p)
phoneRegex(p) ==
  /\ Len(p) = 15
  /\ p[1] = "("
  /\ IsDigit(p[2]) /\ IsDigit(p[3])
  /\ p[4] = ")"
  /\ p[5] = " "
  /\ \A i \in 6..10 : IsDigit(p[i])
  /\ p[11] = "-"
  /\ \A i \in 12..15 : IsDigit(p[i])

maskPhone(value) ==
  IF value = <<>> THEN value
  ELSE LET phoneNumber == SelectSeq(value, IsDigit)
           phoneNumberLength == Len(phoneNumber)
       IN IF phoneNumberLength < 3 THEN phoneNumber
          ELSE IF phoneNumberLength < 7
               THEN <<"(">> \o slice(phoneNumber, 0, 2) \o <<")", " ">>
                      \o slice(phoneNumber, 2, phoneNumberLength)
               ELSE <<"(">> \o slice(phoneNumber, 0, 2) \o <<")", " ">>
                      \o slice(phoneNumber, 2, 7) \o <<"-">>
                      \o slice(phoneNumber, 7, 11)

\* userSchema: name of at least 3 characters, phone matching the mask.
userSchema(data) == Len(data.name) >= 3 /\ phoneRegex(data.phone)

\* Mutant of presencaSchema: the number of adults has no upper bound.
presencaSchemaNoMax(data) ==
  /\ data.attending \in BOOLEAN
  /\ data.adults # NaN /\ data.adults[1] >= 1
  /\ data.children # NaN /\ data.children[1] >= 0 /\ data.children[1] <= 10

\* presencaSchema: the two number fields are checked whatever attending is.
presencaSchema(data) ==
  /\ data.attending \in BOOLEAN
  /\ data.adults # NaN /\ data.adults[1] >= 1 /\ data.adults[1] <= 10
  /\ data.children # NaN /\ data.children[1] >= 0 /\ data.children[1] <= 10

\* giftSchema: name of at least 2, description of at least 5 characters
\* (imageUrl and link have no input in the form and stay undefined or '').
giftSchema(data) == Len(data.name) >= 2 /\ Len(data.description) >= 5

\* z.string().url(): of the links the model enters, the ones new URL() accepts.
url(link) == link \in {"https://maps.app.goo.gl/3fX3B7F1V8C2D5E6", "https://maps.app.goo.gl/novo"}

\* Mutant of configSchema: the map link is not checked.
configSchemaAnyLink(data) ==
  /\ Len(data.eventDate) >= 1
  /\ Len(data.eventTime) >= 1
  /\ Len(data.rsvpDeadline) >= 1
  /\ Len(data.location) >= 5

\* configSchema: the three dates and times are not empty, the address has at
\* least 5 characters, the map link is undefined, '' or a URL.
configSchema(data) ==
  /\ Len(data.eventDate) >= 1
  /\ Len(data.eventTime) >= 1
  /\ Len(data.rsvpDeadline) >= 1
  /\ Len(data.location) >= 5
  /\ \/ Prop(data, "locationLink") = Undefined
     \/ data.locationLink[1] = ""
     \/ url(data.locationLink[1])

\* new Date(s).getTime() on the model's clock, which starts at the midnight
\* of the default deadline; NaN for a string that is no date.
DateParse(s) ==
  IF s = "2024-12-01" THEN Num(ClockStart)
  ELSE IF s = "2025-01-01" THEN Num(ClockStart + 31)
  ELSE NaN

\* Number(v) || 0
NumberOrZero(v) == IF v = NaN THEN 0 ELSE v[1]

\* ------------------------------------------------------------ constants

INITIAL_GIFTS == <<
  [id |-> <<"1">>,
   name |-> "Jogo de Jantar 20 Pecas",
   description |-> "Conjunto de pratos de porcelana branca Oxford para ocasioes especiais.",
   imageUrl |-> <<"https://images.unsplash.com/photo-1574362848149-11496d93a7c7?auto=format&fit=crop&q=80&w=600">>,
   link |-> Some("https://www.amazon.com.br/s?k=jogo+de+jantar+porcelana"),
   isReserved |-> FALSE],
  [id |-> <<"2">>,
   name |-> "Fritadeira Eletrica Airfryer",
   description |-> "Airfryer potente (4L) para nossas receitas saudaveis de final de semana.",
   imageUrl |-> <<"https://images.unsplash.com/photo-1626071494702-420443e2ee43?auto=format&fit=crop&q=80&w=600">>,
   link |-> Some("https://www.magazineluiza.com.br/busca/airfryer/"),
   isReserved |-> FALSE],
  [id |-> <<"3">>,
   name |-> "Jogo de Toalhas Gigante",
   description |-> "Kit banho e rosto em algodao egipcio, cor off-white.",
   imageUrl |-> <<"https://images.unsplash.com/photo-1584622650111-993a426fbf0a?auto=format&fit=crop&q=80&w=600">>,
   link |-> Some("https://www.tokstok.com.br/banho/jogos-de-toalha"),
   isReserved |-> FALSE],
  [id |-> <<"4">>,
   name |-> "Aspirador de Po Robo",
   description |-> "Para nos ajudar a manter o novo lar sempre impecavel.",
   imageUrl |-> <<"https://images.unsplash.com/photo-1518314916381-77a37c2a49ae?auto=format&fit=crop&q=80&w=600">>,
   link |-> Some("https://www.mercadolivre.com.br/aspirador-robo"),
   isReserved |-> FALSE] >>

DEFAULT_CONFIG ==
  [eventDate |-> "2024-12-15",
   eventTime |-> "18:00",
   location |-> "Rua das Flores, 123 - Apt 42, Sao Paulo",
   locationLink |-> Some("https://maps.app.goo.gl/3fX3B7F1V8C2D5E6"),
   rsvpDeadline |-> "2024-12-01",
   googleCalendarLink |-> "https://calendar.google.com/calendar/render?action=TEMPLATE"]

ADMIN_PASSWORD == "admin123"

\* ---------------------------------------------------------------- inputs

\* What a guest may type into the name field (left empty, it is too short).
NameInputs == {"Maria Clara", "Maria"}

\* What a guest may type into the phone field: two full numbers, one of them
\* typed with separators, and a number that is still incomplete.
RAW_A == <<"1", "1", "9", "1", "2", "3", "4", "5", "6", "7", "8">>
RAW_B == <<"2", "1", " ", "9", "8", "7", "6", "5", "-", "4", "3", "2", "1">>
RAW_SHORT == <<"1", "1", "9", "1", "2">>
PhoneInputs == {RAW_A, RAW_B, RAW_SHORT}

PHONE_A == maskPhone(RAW_A)
PHONE_B == maskPhone(RAW_B)

\* The attendance form's values, in and out of the schema's ranges.
AdultsInputs == {NaN, Num(0), Num(1), Num(11)}
ChildrenInputs == {Num(0), Num(1), Num(11)}
PresencaInputs ==
  [attending : BOOLEAN, adults : AdultsInputs, children : ChildrenInputs]

\* The ids a caller passes to reserve, cancel and remove: two seed ids and
\* the ids addItem can assign.
ClockIds == {toString(t) : t \in ClockStart..MaxNow}
ReserveIds == {<<"1">>, <<"2">>} \cup ClockIds
RemoveIds == {<<"1">>, <<"2">>} \cup ClockIds

\* The gift form's values ("X" and "abc" are too short).
GiftInputs ==
  [name : {"Liquidificador", "X"},
   description : {"Liquidificador de alta potencia", "abc"}]

PasswordInputs == {ADMIN_PASSWORD, "admin", "ADMIN123"}

\* What an administrator may type into the address and map link fields of
\* the config form ("Rua" is too short, "mapa" is no URL).
LocationInputs == {"Avenida Central, 45", "Rua"}
LocationLinkInputs == {"", "https://maps.app.goo.gl/novo", "mapa"}

\* The values the config form may hold when it is validated: each date and
\* time field filled or cleared, the address and the map link as above.
ConfigInputs ==
  [eventDate : {"2025-01-10", ""},
   eventTime : {"19:30", ""},
   rsvpDeadline : {"2025-01-01", ""},
   location : LocationInputs,
   locationLink : {Some(l) : l \in LocationLinkInputs},
   googleCalendarLink : {DEFAULT_CONFIG.googleCalendarLink}]

\* ----------------------------------------------------------------- state

VARIABLES
  user,                    \* App: User | null
  isAdmin,                 \* App: boolean
  gifts,                   \* App: Gift[]
  confirmacoes,            \* App: Presenca[]
  config,                  \* App: EventConfig
  uploadedImage,           \* App: string | null
  activeTab,               \* App: TabType
  selectedGiftId,          \* App: string | null
  showAdminLogin,          \* App: boolean
  localStorage,            \* the five persisted documents
  authModal,               \* UserAuthModal: form values and existingUserFound
  now,                     \* the clock read by Date.now() and new Date()
  last,                    \* history: the handler that ran last, its argument, its outcome
                           \*   (and whether the removed gift was reserved, or the
                           \*   closed admin or guest session was open)
  lastSubmit,              \* history: per phone, the last accepted attendance data
  leftBehind,              \* history: the last guest who signed out with a record and items
  everIds,                 \* history: every gift id assigned so far
  roundTrip                \* history: progress of a reserve, cancel, reserve sequence

appVars == <<user, isAdmin, gifts, confirmacoes, config, uploadedImage>>
uiVars == <<activeTab, selectedGiftId, showAdminLogin>>
histVars == <<last, lastSubmit, leftBehind, everIds, roundTrip>>
vars == <<appVars, uiVars, localStorage, authModal, now, histVars>>

\* ------------------------------------------------------------ hydration

EmptyStorage ==
  [user |-> Null, admin |-> Null, gifts |-> Null, rsvp |-> Null, config |-> Null]

\* The mount effect of App: each document, or the built-in default.
hydrateUser(store) == IF store.user # Null THEN Some(store.user[1]) ELSE Null
hydrateAdmin(store) == store.admin = Some("true")

\* Mutant of hydrateGifts: no seed catalog when the document is absent.
hydrateGiftsOrNone(store) == IF store.gifts # Null THEN store.gifts[1] ELSE <<>>

hydrateGifts(store) == IF store.gifts # Null THEN store.gifts[1] ELSE INITIAL_GIFTS
hydrateConfirmacoes(store) == IF store.rsvp # Null THEN store.rsvp[1] ELSE <<>>
hydrateConfig(store) == IF store.config # Null THEN store.config[1] ELSE DEFAULT_CONFIG

\* UserAuthModal as mounted: no value typed, nobody recognised.
BlankModal == [name |-> "", phone |-> <<>>, existingUserFound |-> Null]

\* {!user && !isAdmin && <UserAuthModal .../>}
ModalMounted(u, a) == u = Null /\ ~a

\* The modal's state after a render with user u and admin flag a: kept while
\* it stays mounted, lost when it is unmounted or mounted anew.
ModalAfter(u, a) ==
  IF ModalMounted(user, isAdmin) /\ ModalMounted(u, a) THEN authModal
  ELSE BlankModal

GiftIds(list) == {list[i].id : i \in 1..Len(list)}

Init ==
  /\ localStorage = EmptyStorage
  /\ user = hydrateUser(EmptyStorage)
  /\ isAdmin = hydrateAdmin(EmptyStorage)
  /\ gifts = hydrateGifts(EmptyStorage)
  /\ confirmacoes = hydrateConfirmacoes(EmptyStorage)
  /\ config = hydrateConfig(EmptyStorage)
  /\ uploadedImage = Null
  /\ activeTab = "evento"
  /\ selectedGiftId = Null
  /\ showAdminLogin = FALSE
  /\ authModal = BlankModal
  /\ now = ClockStart
  /\ last = [op |-> "mount", ok |-> TRUE, arg |-> <<>>]
  /\ lastSubmit = [p \in {PHONE_A, PHONE_B} |-> Null]
  /\ leftBehind = Null
  /\ everIds = GiftIds(INITIAL_GIFTS)
  /\ roundTrip = [phase |-> 0, id |-> <<>>, first |-> "", by |-> ""]

\* The guest lists an administrator may find: up to MaxRecords records of
\* different guests, each one accepted by presencaSchema at some earlier time.
\* The i-th guest's phone, as that guest typed it (i < 10).
RawOfGuest(i) == <<"3", "1", "9", "5", "5", "5", "5", "0", "1", "0">> \o toString(i)
GuestLists ==
  UNION {[1..n -> [attending : BOOLEAN, adults : {1, 2}, children : {0, 1}]] :
           n \in 0..MaxRecords}
StoredRecord(i, d) ==
  [name |-> "Maria Clara",
   phone |-> maskPhone(RawOfGuest(i)),
   attending |-> d.attending,
   adultsCount |-> d.adults,
   childrenCount |-> d.children,
   guestsCount |-> d.adults + d.children,
   date |-> ClockStart]

\* The page load of an administrator's browser whose store holds the admin
\* marker and, unless the list is empty, the attendance document.
InitGuestList ==
  \E l \in GuestLists :
    LET store == [EmptyStorage EXCEPT
                    !.admin = Some("true"),
                    !.rsvp = IF Len(l) = 0 THEN Null
                             ELSE Some([i \in 1..Len(l) |-> StoredRecord(i, l[i])])]
    IN /\ localStorage = store
       /\ user = hydrateUser(store)
       /\ isAdmin = hydrateAdmin(store)
       /\ gifts = hydrateGifts(store)
       /\ confirmacoes = hydrateConfirmacoes(store)
       /\ config = hydrateConfig(store)
       /\ uploadedImage = Null
       /\ activeTab = "evento"
       /\ selectedGiftId = Null
       /\ showAdminLogin = FALSE
       /\ authModal = BlankModal
       /\ now = ClockStart
       /\ last = [op |-> "mount", ok |-> TRUE, arg |-> <<>>]
       /\ lastSubmit = [p \in {PHONE_A, PHONE_B} |-> Null]
       /\ leftBehind = Null
       /\ everIds = GiftIds(INITIAL_GIFTS)
       /\ roundTrip = [phase |-> 0, id |-> <<>>, first |-> "", by |-> ""]

\* The first page load of a returning guest: the store holds the user
\* document an earlier visit's identity submission wrote, and nothing else.
InitReturning ==
  \E n \in NameInputs :
    LET store == [EmptyStorage EXCEPT
                    !.user = Some(JSONObject([name |-> n, phone |-> PHONE_A,
                                              isAdmin |-> FALSE]))]
    IN /\ localStorage = store
       /\ user = hydrateUser(store)
       /\ isAdmin = hydrateAdmin(store)
       /\ gifts = hydrateGifts(store)
       /\ confirmacoes = hydrateConfirmacoes(store)
       /\ config = hydrateConfig(store)
       /\ uploadedImage = Null
       /\ activeTab = "evento"
       /\ selectedGiftId = Null
       /\ showAdminLogin = FALSE
       /\ authModal = BlankModal
       /\ now = ClockStart
       /\ last = [op |-> "mount", ok |-> TRUE, arg |-> <<>>]
       /\ lastSubmit = [p \in {PHONE_A, PHONE_B} |-> Null]
       /\ leftBehind = Null
       /\ everIds = GiftIds(INITIAL_GIFTS)
       /\ roundTrip = [phase |-> 0, id |-> <<>>, first |-> "", by |-> ""]

\* A page load over the current storage: every piece of React state starts
\* from its useState default and is then hydrated.
LoadPage(store) ==
  /\ user' = hydrateUser(store)
  /\ isAdmin' = hydrateAdmin(store)
  /\ gifts' = hydrateGifts(store)
  /\ confirmacoes' = hydrateConfirmacoes(store)
  /\ config' = hydrateConfig(store)
  /\ uploadedImage' = Null
  /\ activeTab' = "evento"
  /\ selectedGiftId' = Null
  /\ showAdminLogin' = FALSE
  /\ authModal' = BlankModal

\* A document whose text is not JSON (the app writes none: it is left by
\* another script, an older version or a manual edit). It is a pair, where a
\* document that parses to v is <<v>>.
Unparsable == <<"{", "SyntaxError">>

\* JSON.parse(doc) returns, rather than throws a SyntaxError.
parses(doc) == Len(doc) = 1

\* The stores a cold start may find: each parsed document is absent, as the
\* app would have written it, or unparsable; the admin marker is absent or set.
FoundStores ==
  [user : {Null, Unparsable,
           Some([name |-> "Maria Clara", phone |-> PHONE_A, isAdmin |-> FALSE])},
   admin : {Null, Some("true")},
   gifts : {Null, Unparsable,
            Some([INITIAL_GIFTS EXCEPT
                    ![1] = Spread(@, [isReserved |-> TRUE,
                                      reservedBy |-> Some("Maria Clara")])])},
   rsvp : {Null, Unparsable,
           Some(<<[name |-> "Maria Clara", phone |-> PHONE_A, attending |-> TRUE,
                   adultsCount |-> 2, childrenCount |-> 1, guestsCount |-> 3,
                   date |-> ClockStart]>>)},
   config : {Null, Unparsable,
             Some([DEFAULT_CONFIG EXCEPT !.location = "Avenida Central, 45"])}]

\* The first render of App over a store it finds, before the mount effect:
\* every piece of state holds its useState default.
InitColdStart ==
  /\ localStorage \in FoundStores
  /\ user = Null
  /\ isAdmin = FALSE
  /\ gifts = <<>>
  /\ confirmacoes = <<>>
  /\ config = DEFAULT_CONFIG
  /\ uploadedImage = Null
  /\ activeTab = "evento"
  /\ selectedGiftId = Null
  /\ showAdminLogin = FALSE
  /\ authModal = BlankModal
  /\ now = ClockStart
  /\ last = [op |-> "render", ok |-> TRUE, arg |-> <<>>]
  /\ lastSubmit = [p \in {PHONE_A, PHONE_B} |-> Null]
  /\ leftBehind = Null
  /\ everIds = GiftIds(INITIAL_GIFTS)
  /\ roundTrip = [phase |-> 0, id |-> <<>>, first |-> "", by |-> ""]

\* The mount effect throws: one of its four JSON.parse calls meets a
\* document that is there and does not parse (no call is inside a try).
mountEffectThrows(store) ==
  \E k \in {"user", "gifts", "rsvp", "config"} : store[k] # Null /\ ~parses(store[k])

\* The mount effect of App. When it runs to its end the state is hydrated;
\* when it throws, the error is uncaught (there is no error boundary), React
\* unmounts the tree and the state updates queued so far are never rendered.
mountEffect ==
  /\ last.op = "render"
  /\ IF mountEffectThrows(localStorage)
     THEN /\ UNCHANGED <<appVars, uiVars, authModal>>
          /\ last' = [op |-> "mount", ok |-> FALSE, arg |-> <<>>]
     ELSE /\ LoadPage(localStorage)
          /\ last' = [op |-> "mount", ok |-> TRUE, arg |-> <<>>]
  /\ UNCHANGED <<localStorage, now, lastSubmit, leftBehind, everIds, roundTrip>>

\* The guest reloads the page.
Reload ==
  /\ LoadPage(localStorage)
  /\ last' = [op |-> "reload", ok |-> TRUE, arg |-> <<>>]
  /\ UNCHANGED <<localStorage, now, lastSubmit, leftBehind, everIds, roundTrip>>

\* The clock as the page on screen read it. React renders App after a state
\* update, not when time passes: the page on screen is the one rendered by
\* the last step other than the passing of time (which keeps that reading).
renderedAt == IF last.op = "tick" THEN last.arg[1] ELSE now

\* Time passes.
Tick ==
  /\ now < MaxNow
  /\ now' = now + 1
  /\ last' = [op |-> "tick", ok |-> TRUE, arg |-> Some(renderedAt)]
  /\ UNCHANGED <<appVars, uiVars, localStorage, authModal, lastSubmit, leftBehind, everIds, roundTrip>>

\* ------------------------------------------------------- UserAuthModal

\* list.find(r => r.phone === phone): the first match, or undefined.
findByPhone(list, phone) ==
  IF \E i \in 1..Len(list) : list[i].phone = phone
  THEN Some(list[CHOOSE i \in 1..Len(list) :
                   /\ list[i].phone = phone
                   /\ \A j \in 1..(i - 1) : list[j].phone # phone])
  ELSE Undefined

\* Mutant of lookupEffect: the guest is flagged as recognised, but the name
\* field keeps what was typed.
lookupEffectFlagOnly(form, store) ==
  IF form.phone # <<>> /\ phoneRegex(form.phone)
  THEN IF store.rsvp # Null
       THEN LET match == findByPhone(store.rsvp[1], form.phone)
            IN IF match # Undefined
               THEN [form EXCEPT !.existingUserFound = Some(match[1].name)]
               ELSE [form EXCEPT !.existingUserFound = Null]
       ELSE form
  ELSE [form EXCEPT !.existingUserFound = Null]

\* The effect on [phone]: looks the phone up in the stored attendance list.
lookupEffect(form, store) ==
  IF form.phone # <<>> /\ phoneRegex(form.phone)
  THEN IF store.rsvp # Null
       THEN LET match == findByPhone(store.rsvp[1], form.phone)
            IN IF match # Undefined
               THEN [form EXCEPT !.existingUserFound = Some(match[1].name),
                                 !.name = match[1].name]
               ELSE [form EXCEPT !.existingUserFound = Null]
       ELSE form
  ELSE [form EXCEPT !.existingUserFound = Null]

\* History: the name typed by the step before, carried over a phone entry.
typedName == IF last.op \in {"typeName", "typePhone"} THEN last.arg ELSE <<>>

\* onChange of the phone input: setValue('phone', maskPhone(value)), then the
\* effect runs on the new phone.
typePhone(raw) ==
  /\ ModalMounted(user, isAdmin)
  /\ authModal' = lookupEffect([authModal EXCEPT !.phone = maskPhone(raw)], localStorage)
  /\ last' = [op |-> "typePhone", ok |-> TRUE, arg |-> typedName]
  /\ UNCHANGED <<appVars, uiVars, localStorage, now, lastSubmit, leftBehind, everIds, roundTrip>>

\* Mutant of typeName: the name input is never disabled.
typeNameUnlocked(n) ==
  /\ ModalMounted(user, isAdmin)
  /\ authModal' = [authModal EXCEPT !.name = n]
  /\ last' = [op |-> "typeName", ok |-> TRUE, arg |-> <<n>>]
  /\ UNCHANGED <<appVars, uiVars, localStorage, now, lastSubmit, leftBehind, everIds, roundTrip>>

\* The name input, disabled while a registered guest is recognised.
typeName(n) ==
  /\ ModalMounted(user, isAdmin)
  /\ authModal.existingUserFound = Null
  /\ authModal' = [authModal EXCEPT !.name = n]
  /\ last' = [op |-> "typeName", ok |-> TRUE, arg |-> <<n>>]
  /\ UNCHANGED <<appVars, uiVars, localStorage, now, lastSubmit, leftBehind, everIds, roundTrip>>

\* onSave of App: setUser(u) and the write of the user document.
onSave(u) ==
  /\ user' = Some(u)
  /\ localStorage' = [localStorage EXCEPT !.user = Some(JSONObject(u))]

\* handleSubmit(onSubmit): userSchema, then onSave({...data, isAdmin: false}).
submitIdentity ==
  /\ ModalMounted(user, isAdmin)
  /\ LET data == [name |-> authModal.name, phone |-> authModal.phone]
     IN IF userSchema(data)
        THEN /\ onSave(Spread(data, [isAdmin |-> FALSE]))
             /\ authModal' = BlankModal
             /\ last' = [op |-> "submitIdentity", ok |-> TRUE, arg |-> typedName]
        ELSE /\ UNCHANGED <<user, localStorage, authModal>>
             /\ last' = [op |-> "submitIdentity", ok |-> FALSE, arg |-> <<>>]
  /\ UNCHANGED <<isAdmin, gifts, confirmacoes, config, uploadedImage>>
  /\ leftBehind' = IF userSchema([name |-> authModal.name, phone |-> authModal.phone])
                       /\ leftBehind # Null /\ leftBehind[1].phone = authModal.phone
                    THEN Null ELSE leftBehind
  /\ UNCHANGED <<uiVars, now, lastSubmit, everIds, roundTrip>>

\* History: the contact of the guest who signs out and the ids of the items
\* treated as theirs (myGifts), when the guest has an attendance record and
\* holds reservations. leftBehind keeps it from the sign-out until that
\* contact's next identity submission, or until a cancel or a remove.
heldAtSignOut ==
  IF user # Null /\ findByPhone(confirmacoes, user[1].phone) # Undefined
  THEN LET mine == {gifts[i].id :
                      i \in {k \in 1..Len(gifts) :
                               /\ gifts[k].isReserved
                               /\ Prop(gifts[k], "reservedBy") = Some(user[1].name)}}
       IN IF mine # {} THEN Some([phone |-> user[1].phone, mine |-> mine]) ELSE Null
  ELSE Null

\* Mutant of handleLogout: the whole store is cleared.
handleLogoutClearAll ==
  /\ LoadPage(EmptyStorage)
  /\ localStorage' = EmptyStorage
  /\ last' = [op |-> "handleLogout", ok |-> TRUE, arg |-> <<>>, held |-> user # Null]
  /\ leftBehind' = IF heldAtSignOut # Null THEN heldAtSignOut ELSE leftBehind
  /\ UNCHANGED <<now, lastSubmit, everIds, roundTrip>>

\* Mutant of handleLogout: the attendance document is removed as well.
handleLogoutDropRsvp ==
  /\ LoadPage([localStorage EXCEPT !.user = Null, !.rsvp = Null])
  /\ localStorage' = [localStorage EXCEPT !.user = Null, !.rsvp = Null]
  /\ last' = [op |-> "handleLogout", ok |-> TRUE, arg |-> <<>>, held |-> user # Null]
  /\ leftBehind' = IF heldAtSignOut # Null THEN heldAtSignOut ELSE leftBehind
  /\ UNCHANGED <<now, lastSubmit, everIds, roundTrip>>

\* handleLogout: removes the user document and reloads the page.
handleLogout ==
  /\ LoadPage([localStorage EXCEPT !.user = Null])
  /\ localStorage' = [localStorage EXCEPT !.user = Null]
  /\ last' = [op |-> "handleLogout", ok |-> TRUE, arg |-> <<>>, held |-> user # Null]
  /\ leftBehind' = IF heldAtSignOut # Null THEN heldAtSignOut ELSE leftBehind
  /\ UNCHANGED <<now, lastSubmit, everIds, roundTrip>>

\* ---------------------------------------------------- attendance register

\* confirmacoes.findIndex(c => c.phone === phone): 1-based here, 0 for -1.
findIndex(list, phone) ==
  IF \E i \in 1..Len(list) : list[i].phone = phone
  THEN CHOOSE i \in 1..Len(list) :
         /\ list[i].phone = phone
         /\ \A j \in 1..(i - 1) : list[j].phone # phone
  ELSE 0

\* Mutant of newPresenca: the children are left out of guestsCount.
newPresencaAdultsOnly(u, data, t) ==
  LET adults == NumberOrZero(data.adults)
      children == NumberOrZero(data.children)
  IN [name |-> u.name,
      phone |-> u.phone,
      attending |-> data.attending,
      adultsCount |-> adults,
      childrenCount |-> children,
      guestsCount |-> adults,
      date |-> t]

newPresenca(u, data, t) ==
  LET adults == NumberOrZero(data.adults)
      children == NumberOrZero(data.children)
  IN [name |-> u.name,
      phone |-> u.phone,
      attending |-> data.attending,
      adultsCount |-> adults,
      childrenCount |-> children,
      guestsCount |-> adults + children,
      date |-> t]

\* Mutant of upsert: the record is always appended.
upsertAlwaysAppend(list, p) == Append(list, p)

\* Mutant of upsert: the old record is dropped and the new one goes last.
upsertMoveToEnd(list, p) ==
  Append(SelectSeq(list, LAMBDA r : r.phone # p.phone), p)

\* The list after the upsert of record p.
upsert(list, p) ==
  LET existingIndex == findIndex(list, p.phone)
  IN IF existingIndex > 0
     THEN [list EXCEPT ![existingIndex] = p]
     ELSE Append(list, p)

\* subPresenca(onConfirmReservaPresenca): presencaSchema, then the handler
\* (which returns at once when there is no user). History keeps the data of
\* a submit that a signed-in guest made in vain, and the name the guest typed
\* when the submit follows the identity submission.
onConfirmReservaPresenca(data) ==
  /\ IF presencaSchema(data) /\ user # Null
     THEN LET updated == upsert(confirmacoes, newPresenca(user[1], data, now))
          IN /\ confirmacoes' = updated
             /\ localStorage' = [localStorage EXCEPT !.rsvp = Some(JSONArray(updated))]
             /\ lastSubmit' = [lastSubmit EXCEPT ![user[1].phone] = Some(data)]
             /\ last' = [op |-> "onConfirmReservaPresenca", ok |-> TRUE, arg |-> <<>>,
                          typed |-> IF last.op = "submitIdentity" THEN last.arg ELSE <<>>]
     ELSE /\ UNCHANGED <<confirmacoes, localStorage, lastSubmit, leftBehind>>
          /\ last' = [op |-> "onConfirmReservaPresenca", ok |-> FALSE,
                       arg |-> IF user # Null THEN Some(data) ELSE <<>>]
  /\ UNCHANGED <<user, isAdmin, gifts, config, uploadedImage>>
  /\ UNCHANGED <<uiVars, authModal, now, leftBehind, everIds, roundTrip>>

\* list.reduce((acc, c) => c.attending ? acc + c[key] : acc, 0), left to right.
reduceAttending(list, key) ==
  LET acc[i \in 0..Len(list)] ==
        IF i = 0 THEN 0
        ELSE IF list[i].attending THEN acc[i - 1] + list[i][key] ELSE acc[i - 1]
  IN acc[Len(list)]

\* Mutant of totalPessoas: the declining records are summed too.
totalPessoasOfAll ==
  LET acc[i \in 0..Len(confirmacoes)] ==
        IF i = 0 THEN 0 ELSE acc[i - 1] + confirmacoes[i].guestsCount
  IN acc[Len(confirmacoes)]

\* The metrics of the admin panel.
totalPessoas == reduceAttending(confirmacoes, "guestsCount")
totalAdultos == reduceAttending(confirmacoes, "adultsCount")
totalCriancas == reduceAttending(confirmacoes, "childrenCount")
totalNaoVao == Len(SelectSeq(confirmacoes, LAMBDA c : ~c.attending))

\* ----------------------------------------------------------- gift catalog

Items == 1..Len(gifts)

\* saveGifts: the state and the persisted catalog.
saveGifts(updated) ==
  /\ gifts' = updated
  /\ localStorage' = [localStorage EXCEPT !.gifts = Some(JSONArray(updated))]

\* Mutant of reserveMap: an item that has a reservedBy property is left alone.
reserveMapUnlessHeld(list, id, name) ==
  [i \in 1..Len(list) |->
     IF list[i].id = id /\ "reservedBy" \notin DOMAIN list[i]
     THEN Spread(list[i], [isReserved |-> TRUE, reservedBy |-> Some(name)])
     ELSE list[i]]

\* gifts.map(g => g.id === id ? { ...g, isReserved: true, reservedBy: name } : g)
reserveMap(list, id, name) ==
  [i \in 1..Len(list) |->
     IF list[i].id = id
     THEN Spread(list[i], [isReserved |-> TRUE, reservedBy |-> Some(name)])
     ELSE list[i]]

\* Mutant of cancelMap: only the flag is cleared.
cancelMapFlagOnly(list, id) ==
  [i \in 1..Len(list) |->
     IF list[i].id = id
     THEN Spread(list[i], [isReserved |-> FALSE])
     ELSE list[i]]

\* gifts.map(g => g.id === id ? { ...g, isReserved: false, reservedBy: undefined } : g)
cancelMap(list, id) ==
  [i \in 1..Len(list) |->
     IF list[i].id = id
     THEN Spread(list[i], [isReserved |-> FALSE, reservedBy |-> Undefined])
     ELSE list[i]]

\* Mutant of removeFilter: a reserved item is kept.
removeFilterUnlessReserved(list, id) ==
  SelectSeq(list, LAMBDA g : g.id # id \/ g.isReserved)

\* gifts.filter(g => g.id !== id)
removeFilter(list, id) == SelectSeq(list, LAMBDA g : g.id # id)

\* `https://picsum.photos/seed/${Date.now()}/600/400`
picsum(t) == <<"https://picsum.photos/seed/">> \o toString(t) \o <<"/600/400">>

\* newGift of onAddGift (the form has no imageUrl or link input, so
\* data.imageUrl is falsy and data.link is undefined).
newGift(data, image, t) ==
  [id |-> toString(t),
   name |-> data.name,
   description |-> data.description,
   imageUrl |-> IF image # Null THEN image[1] ELSE picsum(t),
   link |-> Undefined,
   isReserved |-> FALSE]

\* Mutant of addGift: the new gift goes first.
addGiftFirst(list, g) == <<g>> \o list

\* [...gifts, newGift]
addGift(list, g) == Append(list, g)

\* The reserve, cancel, reserve sequence of catalog calls on one id, starting
\* from an available item: phase 1 after the first reserve, 2 after the
\* cancel that follows it, 3 after the reserve that follows that; `first` and
\* `by` are the names the two reserves were made under. Any other catalog
\* call starts over.
roundTripAfter(op, id, name) ==
  LET available == /\ \E i \in Items : gifts[i].id = id
                   /\ \A i \in Items : gifts[i].id = id => ~gifts[i].isReserved
  IN IF op = "handleReserve" /\ roundTrip.phase = 2 /\ roundTrip.id = id
     THEN [phase |-> 3, id |-> id, first |-> roundTrip.first, by |-> name]
     ELSE IF op = "handleCancelReserve" /\ roundTrip.phase = 1 /\ roundTrip.id = id
     THEN [phase |-> 2, id |-> id, first |-> roundTrip.first, by |-> ""]
     ELSE IF op = "handleReserve" /\ available
     THEN [phase |-> 1, id |-> id, first |-> name, by |-> ""]
     ELSE [phase |-> 0, id |-> <<>>, first |-> "", by |-> ""]

\* Mutant of handleReserve: without a user the item is reserved under no name.
handleReserveAnonymous(id) ==
  /\ IF user # Null
     THEN /\ saveGifts(reserveMap(gifts, id, user[1].name))
          /\ roundTrip' = roundTripAfter("handleReserve", id, user[1].name)
          /\ last' = [op |-> "handleReserve", ok |-> TRUE, arg |-> id]
     ELSE /\ saveGifts(reserveMap(gifts, id, ""))
          /\ UNCHANGED roundTrip
          /\ last' = [op |-> "handleReserve", ok |-> FALSE, arg |-> id]
  /\ UNCHANGED <<user, isAdmin, confirmacoes, config, uploadedImage>>
  /\ UNCHANGED <<uiVars, authModal, now, lastSubmit, leftBehind, everIds>>

handleReserve(id) ==
  /\ IF user # Null
     THEN /\ saveGifts(reserveMap(gifts, id, user[1].name))
          /\ roundTrip' = roundTripAfter("handleReserve", id, user[1].name)
          /\ last' = [op |-> "handleReserve", ok |-> TRUE, arg |-> id]
     ELSE /\ UNCHANGED <<gifts, localStorage, roundTrip>>
          /\ last' = [op |-> "handleReserve", ok |-> FALSE, arg |-> id]
  /\ UNCHANGED <<user, isAdmin, confirmacoes, config, uploadedImage>>
  /\ UNCHANGED <<uiVars, authModal, now, lastSubmit, leftBehind, everIds>>

handleCancelReserve(id) ==
  /\ saveGifts(cancelMap(gifts, id))
  /\ roundTrip' = roundTripAfter("handleCancelReserve", id, "")
  /\ last' = [op |-> "handleCancelReserve", ok |-> TRUE, arg |-> id]
  /\ UNCHANGED <<user, isAdmin, confirmacoes, config, uploadedImage>>
  /\ leftBehind' = Null
  /\ UNCHANGED <<uiVars, authModal, now, lastSubmit, everIds>>

\* subGift(onAddGift): giftSchema, then the handler.
onAddGift(data) ==
  /\ IF giftSchema(data)
     THEN /\ saveGifts(addGift(gifts, newGift(data, uploadedImage, now)))
          /\ uploadedImage' = Null
          /\ everIds' = everIds \cup {toString(now)}
          /\ roundTrip' = roundTripAfter("onAddGift", <<>>, "")
          /\ last' = [op |-> "onAddGift", ok |-> TRUE, arg |-> toString(now)]
     ELSE /\ UNCHANGED <<gifts, localStorage, uploadedImage, everIds, roundTrip>>
          /\ last' = [op |-> "onAddGift", ok |-> FALSE, arg |-> <<>>]
  /\ UNCHANGED <<user, isAdmin, confirmacoes, config>>
  /\ UNCHANGED <<uiVars, authModal, now, lastSubmit, leftBehind>>

\* reader.onloadend of handleFileChange: the chosen file as a data URL.
handleFileChange ==
  /\ uploadedImage' = Some(<<"data:image/png;base64,AAAA">>)
  /\ last' = [op |-> "handleFileChange", ok |-> TRUE, arg |-> <<>>]
  /\ UNCHANGED <<user, isAdmin, gifts, confirmacoes, config>>
  /\ UNCHANGED <<uiVars, localStorage, authModal, now, lastSubmit, leftBehind, everIds, roundTrip>>

handleRemoveGift(id) ==
  /\ saveGifts(removeFilter(gifts, id))
  /\ roundTrip' = roundTripAfter("handleRemoveGift", id, "")
  /\ last' = [op |-> "handleRemoveGift", ok |-> TRUE, arg |-> id,
               held |-> \E i \in Items : gifts[i].id = id /\ gifts[i].isReserved]
  /\ leftBehind' = Null
  /\ UNCHANGED <<user, isAdmin, confirmacoes, config, uploadedImage>>
  /\ UNCHANGED <<uiVars, authModal, now, lastSubmit, everIds>>

\* ----------------------------------------------------- admin session

\* Mutant of handleAdminLogin: a password of the secret's length is accepted.
handleAdminLoginByLength(password) ==
  /\ IF Len(password) = Len(ADMIN_PASSWORD)
     THEN /\ isAdmin' = TRUE
          /\ localStorage' = [localStorage EXCEPT !.admin = Some("true")]
          /\ showAdminLogin' = FALSE
          /\ authModal' = ModalAfter(user, TRUE)
          /\ last' = [op |-> "handleAdminLogin", ok |-> TRUE, arg |-> <<>>]
     ELSE /\ UNCHANGED <<isAdmin, localStorage, showAdminLogin, authModal>>
          /\ last' = [op |-> "handleAdminLogin", ok |-> FALSE, arg |-> <<>>]
  /\ UNCHANGED <<user, gifts, confirmacoes, config, uploadedImage>>
  /\ UNCHANGED <<activeTab, selectedGiftId, now, lastSubmit, leftBehind, everIds, roundTrip>>

\* handleAdminLogin, and handleSubmit of AdminLoginModal around it: the modal
\* is closed when the password is accepted.
handleAdminLogin(password) ==
  /\ IF password = ADMIN_PASSWORD
     THEN /\ isAdmin' = TRUE
          /\ localStorage' = [localStorage EXCEPT !.admin = Some("true")]
          /\ showAdminLogin' = FALSE
          /\ authModal' = ModalAfter(user, TRUE)
          /\ last' = [op |-> "handleAdminLogin", ok |-> TRUE, arg |-> <<>>]
     ELSE /\ UNCHANGED <<isAdmin, localStorage, showAdminLogin, authModal>>
          /\ last' = [op |-> "handleAdminLogin", ok |-> FALSE, arg |-> <<>>]
  /\ UNCHANGED <<user, gifts, confirmacoes, config, uploadedImage>>
  /\ UNCHANGED <<activeTab, selectedGiftId, now, lastSubmit, leftBehind, everIds, roundTrip>>

\* Mutant of onSaveConfig: the config is set, the document is not written.
onSaveConfigInMemory(data) ==
  /\ IF configSchema(data)
     THEN /\ config' = data
          /\ UNCHANGED localStorage
          /\ last' = [op |-> "onSaveConfig", ok |-> TRUE, arg |-> Some(data)]
     ELSE /\ UNCHANGED <<config, localStorage>>
          /\ last' = [op |-> "onSaveConfig", ok |-> FALSE, arg |-> Some(data)]
  /\ UNCHANGED <<user, isAdmin, gifts, confirmacoes, uploadedImage>>
  /\ UNCHANGED <<uiVars, authModal, now, lastSubmit, leftBehind, everIds, roundTrip>>

\* subConfig(onSaveConfig), run on every change of the config form:
\* configSchema, then the handler.
onSaveConfig(data) ==
  /\ IF configSchema(data)
     THEN /\ config' = data
          /\ localStorage' = [localStorage EXCEPT !.config = Some(JSONObject(data))]
          /\ last' = [op |-> "onSaveConfig", ok |-> TRUE, arg |-> Some(data)]
     ELSE /\ UNCHANGED <<config, localStorage>>
          /\ last' = [op |-> "onSaveConfig", ok |-> FALSE, arg |-> Some(data)]
  /\ UNCHANGED <<user, isAdmin, gifts, confirmacoes, uploadedImage>>
  /\ UNCHANGED <<uiVars, authModal, now, lastSubmit, leftBehind, everIds, roundTrip>>

\* Mutant of handleAdminLogout: the marker stays in the store.
handleAdminLogoutInMemory ==
  /\ isAdmin' = FALSE
  /\ UNCHANGED localStorage
  /\ activeTab' = IF activeTab = "admin" THEN "evento" ELSE activeTab
  /\ authModal' = ModalAfter(user, FALSE)
  /\ last' = [op |-> "handleAdminLogout", ok |-> TRUE, arg |-> <<>>, held |-> isAdmin]
  /\ UNCHANGED <<user, gifts, confirmacoes, config, uploadedImage>>
  /\ UNCHANGED <<selectedGiftId, showAdminLogin, now, lastSubmit, leftBehind, everIds, roundTrip>>

handleAdminLogout ==
  /\ isAdmin' = FALSE
  /\ localStorage' = [localStorage EXCEPT !.admin = Null]
  /\ activeTab' = IF activeTab = "admin" THEN "evento" ELSE activeTab
  /\ authModal' = ModalAfter(user, FALSE)
  /\ last' = [op |-> "handleAdminLogout", ok |-> TRUE, arg |-> <<>>, held |-> isAdmin]
  /\ UNCHANGED <<user, gifts, confirmacoes, config, uploadedImage>>
  /\ UNCHANGED <<selectedGiftId, showAdminLogin, now, lastSubmit, leftBehind, everIds, roundTrip>>

\* ------------------------------------------- the operations, as called

\* The guest fills in the identity form.
enterPhone == \E raw \in PhoneInputs : typePhone(raw)
enterName == \E n \in NameInputs : typeName(n)

\* The contracts of the catalog and of the register, called with any argument.
reserve == \E id \in ReserveIds : handleReserve(id)
cancel == \E id \in ReserveIds : handleCancelReserve(id)
addItem == \E data \in GiftInputs : onAddGift(data)
removeItem == \E id \in RemoveIds : handleRemoveGift(id)
submit == \E data \in PresencaInputs : onConfirmReservaPresenca(data)

\* An administrator's change of a field of the config form (useForm's
\* values are the current config).
changeLocation == \E l \in LocationInputs : onSaveConfig([config EXCEPT !.location = l])
changeLocationLink ==
  \E l \in LocationLinkInputs : onSaveConfig([config EXCEPT !.locationLink = Some(l)])

\* The config update, called with any form values.
saveConfig == \E data \in ConfigInputs : onSaveConfig(data)

\* The admin session, called with any password.
authenticate == \E password \in PasswordInputs : handleAdminLogin(password)

\* The catalog has room for another added gift, up to n of them.
RoomFor(n) == Len(gifts) < Len(INITIAL_GIFTS) + n

\* ------------------------------------------------------ the rendered page
\* What the page offers in the current state. The two modals are overlays
\* without a focus trap, so the controls under them stay operable.

Tabs == {"evento", "presentes", "meus-selecionados", "admin"}

\* gifts.find(g => g.id === selectedGiftId)
selectedGift ==
  IF selectedGiftId # Null /\ \E i \in Items : gifts[i].id = selectedGiftId[1]
  THEN Some(gifts[CHOOSE i \in Items :
                    /\ gifts[i].id = selectedGiftId[1]
                    /\ \A j \in 1..(i - 1) : gifts[j].id # selectedGiftId[1]])
  ELSE Undefined

\* Mutant of isMine: any signed-in guest counts as the holder.
isMineWhenSignedIn(g) == user # Null

\* isMine of GiftCard and GiftDetails: currentUser && gift.reservedBy === currentUser.name
isMine(g) == user # Null /\ Prop(g, "reservedBy") = Some(user[1].name)

\* gifts.filter(g => g.isReserved && g.reservedBy === user?.name)
myGifts ==
  SelectSeq(gifts, LAMBDA g :
    g.isReserved /\ Prop(g, "reservedBy") = (IF user # Null THEN Some(user[1].name)
                                                               ELSE Undefined))

\* <main> shows GiftDetails when selectedGift is found, the active tab otherwise.
DetailsShown == selectedGift # Undefined
TabShown(t) == selectedGift = Undefined /\ activeTab = t

\* The tab buttons of the header ({!selectedGiftId && <header>}), and the
\* link of the empty "meus-selecionados" tab to the gift list.
tabOffered(t) ==
  \/ /\ selectedGiftId = Null
     /\ \/ t \in {"evento", "presentes"}
        \/ t = "meus-selecionados" /\ user # Null /\ ~isAdmin
        \/ t = "admin" /\ isAdmin
  \/ t = "presentes" /\ TabShown("meus-selecionados") /\ Len(myGifts) = 0

\* The reserve button of GiftCard and GiftDetails: {!gift.isReserved ? ...}
reserveOffered(id) ==
  \/ DetailsShown /\ selectedGift[1].id = id /\ ~selectedGift[1].isReserved
  \/ TabShown("presentes") /\ \E i \in Items : gifts[i].id = id /\ ~gifts[i].isReserved

\* The cancel button of GiftCard and GiftDetails ({... : isMine ? ...}) and of
\* the rows of the "meus-selecionados" tab.
cancelOffered(id) ==
  \/ /\ DetailsShown /\ selectedGift[1].id = id
     /\ selectedGift[1].isReserved /\ isMine(selectedGift[1])
  \/ /\ TabShown("presentes")
     /\ \E i \in Items : gifts[i].id = id /\ gifts[i].isReserved /\ isMine(gifts[i])
  \/ /\ TabShown("meus-selecionados")
     /\ \E i \in 1..Len(myGifts) : myGifts[i].id = id

\* Mutant of removeOffered: the remove button is rendered for everyone.
removeOfferedToAll(id) ==
  TabShown("presentes") /\ \E i \in Items : gifts[i].id = id

\* The remove button of GiftCard: {isAdmin && ...}
removeOffered(id) ==
  TabShown("presentes") /\ isAdmin /\ \E i \in Items : gifts[i].id = id

\* The admin panel (metrics, guest list, config form, gift form):
\* {activeTab === 'admin' && isAdmin && ...}
adminPanelShown == TabShown("admin") /\ isAdmin

\* TabButton onClick: setActiveTab(t)
clickTab ==
  \E t \in Tabs :
    /\ tabOffered(t)
    /\ activeTab' = t
    /\ UNCHANGED <<appVars, selectedGiftId, showAdminLogin>>
    /\ UNCHANGED <<localStorage, authModal, now, histVars>>

\* GiftCard onClick: onViewDetails(gift.id)
viewDetails ==
  \E id \in ReserveIds :
    /\ TabShown("presentes")
    /\ \E i \in Items : gifts[i].id = id
    /\ selectedGiftId' = Some(id)
    /\ UNCHANGED <<appVars, activeTab, showAdminLogin>>
    /\ UNCHANGED <<localStorage, authModal, now, histVars>>

\* GiftDetails onBack: setSelectedGiftId(null)
back ==
  /\ DetailsShown
  /\ selectedGiftId' = Null
  /\ UNCHANGED <<appVars, activeTab, showAdminLogin>>
  /\ UNCHANGED <<localStorage, authModal, now, histVars>>

clickReserve == \E id \in ReserveIds : reserveOffered(id) /\ handleReserve(id)
clickCancel == \E id \in ReserveIds : cancelOffered(id) /\ handleCancelReserve(id)
clickRemove == \E id \in RemoveIds : removeOffered(id) /\ handleRemoveGift(id)

\* t > new Date(config.rsvpDeadline): false when the deadline is no date.
pastDeadline(t) ==
  LET deadline == DateParse(config.rsvpDeadline)
  IN deadline # NaN /\ t > deadline[1]

\* isReservaPast, as computed by the render that produced the page on screen.
isReservaPast == pastDeadline(renderedAt)

\* The attendance form in the RSVP section of the "evento" tab:
\* {isReservaPast ? ... : isAdmin ? ... : <form onSubmit=...>}. The buttons
\* that open the form (setShowReservaPresencaForm) are rendered under the
\* same two conditions; the guest presses one right after the render that
\* shows it, so the form is open on the page on screen.
submitOffered == TabShown("evento") /\ ~isReservaPast /\ ~isAdmin

clickSubmit == submitOffered /\ submit

\* An administrator's change of the deadline field of the config form.
DeadlineInputs == {"2024-12-01", "2025-01-01"}
editDeadline ==
  /\ adminPanelShown
  /\ \E d \in DeadlineInputs : onSaveConfig([config EXCEPT !.rsvpDeadline = d])

\* The forms of the admin panel.
clickAddGift == adminPanelShown /\ addItem
editLocation == adminPanelShown /\ changeLocation
editLocationLink == adminPanelShown /\ changeLocationLink

\* Navbar "Acesso Admin": setShowAdminLogin(true)
openAdminLogin ==
  /\ ~isAdmin
  /\ showAdminLogin' = TRUE
  /\ UNCHANGED <<appVars, activeTab, selectedGiftId>>
  /\ UNCHANGED <<localStorage, authModal, now, histVars>>

\* AdminLoginModal "Cancelar": onClose
closeAdminLogin ==
  /\ showAdminLogin
  /\ showAdminLogin' = FALSE
  /\ UNCHANGED <<appVars, activeTab, selectedGiftId>>
  /\ UNCHANGED <<localStorage, authModal, now, histVars>>

\* AdminLoginModal "Entrar"
submitAdminLogin == \E password \in PasswordInputs : showAdminLogin /\ handleAdminLogin(password)

\* Navbar "Sair do Admin" and "Sair"
clickAdminLogout == isAdmin /\ handleAdminLogout
clickLogout == user # Null /\ ~isAdmin /\ handleLogout

\* ------------------------------------------------------- specifications

\* Identity, sign-out and attendance: the guest's path through the register.
NextAttendance ==
  \/ enterPhone
  \/ enterName
  \/ submitIdentity
  \/ handleLogout
  \/ submit
  \/ Reload
  \/ Tick

SpecAttendance == Init /\ [][NextAttendance]_vars

\* Identity, sign-out, reserve and cancel, called as handlers.
NextReserve ==
  \/ enterPhone
  \/ enterName
  \/ submitIdentity
  \/ handleLogout
  \/ reserve
  \/ cancel

SpecReserve == Init /\ [][NextReserve]_vars

\* The admin's catalog operations, called as handlers, and the clock.
NextAddRemove ==
  \/ (RoomFor(MaxAdds) /\ addItem)
  \/ handleFileChange
  \/ removeItem
  \/ Tick

SpecAddRemove == Init /\ [][NextAddRemove]_vars

\* The four catalog operations, called as handlers by a guest who is already
\* signed in when the page loads, with page reloads and the clock.
NextCatalog ==
  \/ reserve
  \/ cancel
  \/ (RoomFor(MaxCatalogAdds) /\ addItem)
  \/ removeItem
  \/ Reload
  \/ Tick

SpecCatalog == InitReturning /\ [][NextCatalog]_vars

\* Every operation that writes a document, with page reloads in between:
\* one guest, one seed gift to reserve and another to remove, one gift to add.
NextPersist ==
  \/ typePhone(RAW_A)
  \/ typeName("Maria Clara")
  \/ submitIdentity
  \/ handleLogout
  \/ onConfirmReservaPresenca([attending |-> TRUE, adults |-> Num(1), children |-> Num(1)])
  \/ handleReserve(<<"1">>)
  \/ handleCancelReserve(<<"1">>)
  \/ (RoomFor(MaxCatalogAdds) /\ addItem)
  \/ handleRemoveGift(<<"2">>)
  \/ changeLocation
  \/ changeLocationLink
  \/ authenticate
  \/ handleAdminLogout
  \/ Reload

SpecPersist == Init /\ [][NextPersist]_vars

\* The config update, called as a handler, with the admin session and page
\* reloads.
NextConfig ==
  \/ saveConfig
  \/ authenticate
  \/ handleAdminLogout
  \/ Reload

SpecConfig == Init /\ [][NextConfig]_vars

\* The cold start over the stores the app may find.
NextColdStart == mountEffect

SpecColdStart == InitColdStart /\ [][NextColdStart]_vars

\* The admin panel over the guest lists an administrator may find.
NextMetrics ==
  \/ clickTab
  \/ Reload

SpecMetrics == InitGuestList /\ [][NextMetrics]_vars

\* The gift list as the page offers it: every step is a control the page
\* shows in the current state.
NextGiftsUI ==
  \/ enterPhone
  \/ enterName
  \/ submitIdentity
  \/ clickLogout
  \/ openAdminLogin
  \/ closeAdminLogin
  \/ submitAdminLogin
  \/ clickAdminLogout
  \/ clickTab
  \/ viewDetails
  \/ back
  \/ clickReserve
  \/ clickCancel
  \/ clickRemove

SpecGiftsUI == Init /\ [][NextGiftsUI]_vars

\* The attendance form as the page offers it to a guest who is signed in
\* when the page loads, with the clock, page reloads and the admin session.
NextRsvpUI ==
  \/ clickSubmit
  \/ clickTab
  \/ openAdminLogin
  \/ submitAdminLogin
  \/ clickAdminLogout
  \/ editDeadline
  \/ Reload
  \/ Tick

SpecRsvpUI == InitReturning /\ [][NextRsvpUI]_vars

\* The admin session as the page offers it, next to one guest's identity:
\* every step is a control the page shows in the current state.
NextAdminUI ==
  \/ typePhone(RAW_A)
  \/ typeName("Maria Clara")
  \/ submitIdentity
  \/ clickLogout
  \/ openAdminLogin
  \/ closeAdminLogin
  \/ submitAdminLogin
  \/ clickAdminLogout
  \/ clickTab
  \/ viewDetails
  \/ back
  \/ clickRemove
  \/ (RoomFor(MaxCatalogAdds) /\ clickAddGift)
  \/ editLocation
  \/ editLocationLink
  \/ Reload

SpecAdminUI == Init /\ [][NextAdminUI]_vars

\* Two guests with their attendance records and their reservations, called
\* as handlers: identity, sign-out, submit, reserve and cancel.
NextGuests ==
  \/ typePhone(RAW_A)
  \/ typePhone(RAW_B)
  \/ enterName
  \/ submitIdentity
  \/ handleLogout
  \/ onConfirmReservaPresenca([attending |-> TRUE, adults |-> Num(1), children |-> Num(1)])
  \/ handleReserve(<<"1">>)
  \/ handleReserve(<<"2">>)
  \/ handleCancelReserve(<<"1">>)

SpecGuests == Init /\ [][NextGuests]_vars

\* Reserve and cancel by a guest who is signed in when the page loads, over
\* the catalogs that addItem and removeItem build from the seed.
NextGrownCatalog ==
  \/ handleReserve(<<"1">>)
  \/ handleReserve(toString(ClockStart))
  \/ handleCancelReserve(<<"1">>)
  \/ handleCancelReserve(toString(ClockStart))
  \/ (RoomFor(MaxAdds) /\ addItem)
  \/ handleRemoveGift(<<"2">>)
  \/ handleRemoveGift(toString(ClockStart))
  \/ Tick

SpecGrownCatalog == InitReturning /\ [][NextGrownCatalog]_vars

\* Reserve and cancel as the page offers them to one guest after another,
\* while items are added to the catalog.
NextGrownUI ==
  \/ typePhone(RAW_B)
  \/ typeName("Maria")
  \/ submitIdentity
  \/ clickLogout
  \/ clickTab
  \/ clickReserve
  \/ clickCancel
  \/ (RoomFor(MaxAdds)
        /\ onAddGift([name |-> "Liquidificador",
                      description |-> "Liquidificador de alta potencia"]))
  \/ Tick

SpecGrownUI == InitReturning /\ [][NextGrownUI]_vars

\* ------------------------------------------- claims on the register

Records == 1..Len(confirmacoes)

\* C1: in every reachable state the attendance list, and its persisted copy,
\* hold at most one record per phone.
C1_OneRecordPerContact ==
  /\ \A i, j \in Records :
       confirmacoes[i].phone = confirmacoes[j].phone => i = j
  /\ localStorage.rsvp # Null =>
       \A i, j \in 1..Len(localStorage.rsvp[1]) :
         localStorage.rsvp[1][i].phone = localStorage.rsvp[1][j].phone => i = j

\* C1 happens: two contacts are on the list, and the first one has submitted
\* again after the second one's record was added.
C1_Witness ==
  /\ Len(confirmacoes) = 2
  /\ confirmacoes[1].date > confirmacoes[2].date

\* C3: for every contact the stored record carries attending, adultsCount,
\* childrenCount and guestsCount of the last accepted submit made under that
\* contact, and a contact that never submitted has no record.
C3_RecordIsLastSubmit ==
  \A c \in DOMAIN lastSubmit :
    IF lastSubmit[c] = Null
    THEN \A i \in Records : confirmacoes[i].phone # c
    ELSE LET d == lastSubmit[c][1]
         IN /\ \E i \in Records : confirmacoes[i].phone = c
            /\ \A i \in Records :
                 confirmacoes[i].phone = c =>
                   /\ confirmacoes[i].attending = d.attending
                   /\ confirmacoes[i].adultsCount = d.adults[1]
                   /\ confirmacoes[i].childrenCount = d.children[1]
                   /\ confirmacoes[i].guestsCount = d.adults[1] + d.children[1]

\* C3 happens: a contact that had answered yes for three people has just
\* submitted again, declining.
C3_Witness ==
  /\ last.op = "onConfirmReservaPresenca" /\ last.ok
  /\ \E i \in Records :
       /\ confirmacoes[i].phone = user[1].phone
       /\ ~confirmacoes[i].attending
       /\ confirmacoes[i].date > ClockStart
  /\ \E i \in Records : confirmacoes[i].phone # user[1].phone

\* C4: an accepted submit for a contact on the list replaces that contact's
\* record at its index and leaves the length and every other record as they
\* were; an accepted submit for a contact not on the list adds one record at
\* the end and leaves the earlier ones as they were.
C4_ReplaceInPlaceOrAppend ==
  [][(last'.op = "onConfirmReservaPresenca" /\ last'.ok) =>
       IF \E i \in Records : confirmacoes[i].phone = user[1].phone
       THEN /\ Len(confirmacoes') = Len(confirmacoes)
            /\ \A i \in Records :
                 IF confirmacoes[i].phone = user[1].phone
                 THEN confirmacoes'[i].phone = user[1].phone
                 ELSE confirmacoes'[i] = confirmacoes[i]
       ELSE /\ Len(confirmacoes') = Len(confirmacoes) + 1
            /\ confirmacoes'[Len(confirmacoes')].phone = user[1].phone
            /\ \A i \in Records : confirmacoes'[i] = confirmacoes[i]]_vars

\* C4 happens: the record at index 1 has just been replaced, at a later time
\* than the record at index 2 was added.
C4_Witness ==
  /\ last.op = "onConfirmReservaPresenca" /\ last.ok
  /\ Len(confirmacoes) = 2
  /\ confirmacoes[1].phone = user[1].phone
  /\ confirmacoes[1].date = now
  /\ confirmacoes[2].date < now

\* C6: an identity submission for a contact that has an attendance record
\* establishes a session whose name is the record's name, whatever name the
\* guest typed.
C6_RecognisedNameIsStored ==
  [][(last'.op = "submitIdentity" /\ last'.ok) =>
       \A i \in Records :
         confirmacoes[i].phone = user'[1].phone =>
           user'[1].name = confirmacoes[i].name]_vars

\* C6 happens: "Maria Clara" is on the list, and the guest who typed "Maria"
\* and her phone has just been taken in as "Maria Clara".
C6_Witness ==
  /\ last.op = "submitIdentity" /\ last.ok
  /\ last.arg = <<"Maria">>
  /\ user[1].name = "Maria Clara"
  /\ \E i \in Records :
       /\ confirmacoes[i].phone = user[1].phone
       /\ confirmacoes[i].name = "Maria Clara"

\* --------------------------------------------- claims on the catalog

\* The persisted catalog, as a page load would read it.
StoredGifts == hydrateGifts(localStorage)

\* C2: a reserve call for an item that is already reserved leaves the item's
\* reservedBy, the catalog and its persisted copy as they were (the handler
\* returns nothing, so there is no conflict report to state).
C2_ReserveOnReservedKeepsHolder ==
  [][(last'.op = "handleReserve"
        /\ \E i \in Items : gifts[i].id = last'.arg /\ gifts[i].isReserved) =>
       /\ gifts' = gifts
       /\ localStorage' = localStorage]_vars

\* C5: in every reachable state every item of the catalog, and of its
\* persisted copy, has isReserved false exactly when it has no reservedBy.
C5_ReservedIffHolder ==
  /\ \A i \in Items :
       (gifts[i].isReserved = FALSE) <=> (Prop(gifts[i], "reservedBy") = Undefined)
  /\ \A i \in 1..Len(StoredGifts) :
       (StoredGifts[i].isReserved = FALSE)
         <=> (Prop(StoredGifts[i], "reservedBy") = Undefined)

\* C5 happens: the catalog has lost a seed item, gained an added one, and
\* holds a reserved item next to one whose reservation was cancelled.
C5_Witness ==
  /\ \E i \in Items : gifts[i].isReserved
  /\ \E i \in Items : "reservedBy" \in DOMAIN gifts[i] /\ ~gifts[i].isReserved
  /\ \E i \in Items : gifts[i].id \in ClockIds
  /\ \E id \in GiftIds(INITIAL_GIFTS) : id \notin GiftIds(gifts)

\* C7: after reserve(i) on an available item, cancel(i) and reserve(i) by a
\* guest named b, item i is reserved and its reservedBy is b.
C7_RoundTripEndsWithSecondGuest ==
  roundTrip.phase = 3 =>
    /\ \E i \in Items : gifts[i].id = roundTrip.id
    /\ \A i \in Items :
         gifts[i].id = roundTrip.id =>
           /\ gifts[i].isReserved
           /\ Prop(gifts[i], "reservedBy") = Some(roundTrip.by)

\* C7 happens: the round trip has just ended, and the second reserve was made
\* under another name than the first.
C7_Witness ==
  /\ roundTrip.phase = 3
  /\ roundTrip.by # roundTrip.first
  /\ last.op = "handleReserve"

C9_IdsUniqueNeverReused ==
  /\ [](\A i, j \in Items : gifts[i].id = gifts[j].id => i = j)
  /\ [][(last'.op = "onAddGift" /\ last'.ok) => last'.arg \notin everIds]_vars

\* C10: an accepted addItem leaves the previous catalog as it was, in the same
\* order, and appends one item whose isReserved is false and which has no
\* reservedBy; from the seed catalog, the result has 5 items.
C10_AddAppendsOneAvailableItem ==
  [][(last'.op = "onAddGift" /\ last'.ok) =>
       /\ Len(gifts') = Len(gifts) + 1
       /\ \A i \in Items : gifts'[i] = gifts[i]
       /\ gifts'[Len(gifts')].isReserved = FALSE
       /\ Prop(gifts'[Len(gifts')], "reservedBy") = Undefined
       /\ (gifts = INITIAL_GIFTS => Len(gifts') = 5)]_vars

\* C10 happens: "Liquidificador" has just been added to the seed catalog.
C10_Witness ==
  /\ last.op = "onAddGift" /\ last.ok
  /\ Len(gifts) = 5
  /\ SubSeq(gifts, 1, 4) = INITIAL_GIFTS
  /\ gifts[5].name = "Liquidificador"
  /\ gifts[5].id = toString(now)

\* C11: removeItem(id) leaves no item with that id, whether the item was
\* available or reserved, and every other item stays as it was, in the same
\* relative order (each kept item moves up by the number of removed items
\* before it); the persisted copy is the same list.
C11_RemoveDropsOnlyThatId ==
  [][last'.op = "handleRemoveGift" =>
       LET id == last'.arg
           gone(i) == Cardinality({j \in 1..i : gifts[j].id = id})
       IN /\ id \notin GiftIds(gifts')
          /\ Len(gifts') = Len(gifts) - gone(Len(gifts))
          /\ \A i \in Items : gifts[i].id # id => gifts'[i - gone(i)] = gifts[i]
          /\ StoredGifts' = JSONArray(gifts')]_vars

\* C11 happens: a reserved seed item has just been removed from between two
\* items that stay, and a reserved item is among those that stay.
C11_Witness ==
  /\ last.op = "handleRemoveGift" /\ last.held
  /\ last.arg = <<"2">>
  /\ <<"1">> \in GiftIds(gifts) /\ <<"3">> \in GiftIds(gifts)
  /\ \E i \in Items : gifts[i].isReserved

\* The party size of an attendance form lies outside the allowed ranges
\* (adults 1..10, children 0..10).
PartySizeOutOfRange(data) ==
  \/ data.adults = NaN \/ data.adults[1] < 1 \/ data.adults[1] > 10
  \/ data.children = NaN \/ data.children[1] < 0 \/ data.children[1] > 10

\* C12: a submit with attending = true and a party size out of range fails,
\* and leaves the attendance list and its persisted copy as they were: the
\* data of an accepted submit is never of that kind, and a submit that is
\* not accepted changes neither the list nor its persisted copy.
C12_OutOfRangeSubmitRejected ==
  [][last'.op = "onConfirmReservaPresenca" =>
       IF last'.ok
       THEN LET data == lastSubmit'[user[1].phone][1]
            IN ~(data.attending /\ PartySizeOutOfRange(data))
       ELSE /\ confirmacoes' = confirmacoes
            /\ localStorage'.rsvp = localStorage.rsvp]_vars

\* C12 happens: a signed-in guest with a record on the list has just
\* submitted attending = true with 11 adults, in vain.
C12_Witness ==
  /\ last.op = "onConfirmReservaPresenca" /\ ~last.ok
  /\ user # Null
  /\ last.arg # <<>> /\ last.arg[1].attending /\ last.arg[1].adults = Num(11)
  /\ \E i \in Records : confirmacoes[i].phone = user[1].phone
  /\ localStorage.rsvp = Some(JSONArray(confirmacoes))

\* C13: a submit with attending = false by a signed-in guest is accepted
\* whatever its party size (adults = 0 included), and the guest's record on
\* the list and in its persisted copy then says attending = false.
C13_DeclineAcceptedForAnyPartySize ==
  [][last'.op = "onConfirmReservaPresenca" =>
       \A data \in PresencaInputs :
         (~data.attending /\ user # Null /\ onConfirmReservaPresenca(data)) =>
           /\ last'.ok
           /\ \E i \in 1..Len(confirmacoes') :
                /\ confirmacoes'[i].phone = user[1].phone
                /\ ~confirmacoes'[i].attending
           /\ localStorage'.rsvp = Some(JSONArray(confirmacoes'))]_vars

\* The sum of f over the indices in S.
RECURSIVE SumOver(_, _)
SumOver(f, S) ==
  IF S = {} THEN 0
  ELSE LET i == CHOOSE i \in S : TRUE IN f[i] + SumOver(f, S \ {i})

Attending == {i \in Records : confirmacoes[i].attending}

\* C14: the aggregates of the admin panel are the sums of guestsCount, of
\* adultsCount and of childrenCount over the attending records, and the
\* number of records that are not attending; the counts stored on the
\* declining records are in none of the sums.
C14_AggregatesOverAttending ==
  /\ totalPessoas = SumOver([i \in Records |-> confirmacoes[i].guestsCount], Attending)
  /\ totalAdultos = SumOver([i \in Records |-> confirmacoes[i].adultsCount], Attending)
  /\ totalCriancas = SumOver([i \in Records |-> confirmacoes[i].childrenCount], Attending)
  /\ totalNaoVao = Cardinality(Records \ Attending)

\* C14 happens: the admin panel shows 4, 3, 1 and 1 for the list of a party
\* of 2 + 1, a party of 1 + 0 and a declining guest whose record stores 2 + 1.
C14_Witness ==
  /\ TabShown("admin") /\ isAdmin
  /\ Len(confirmacoes) = 3
  /\ confirmacoes[1].attending
  /\ confirmacoes[1].adultsCount = 2 /\ confirmacoes[1].childrenCount = 1
  /\ confirmacoes[2].attending
  /\ confirmacoes[2].adultsCount = 1 /\ confirmacoes[2].childrenCount = 0
  /\ ~confirmacoes[3].attending /\ confirmacoes[3].guestsCount = 3
  /\ totalPessoas = 4 /\ totalAdultos = 3 /\ totalCriancas = 1 /\ totalNaoVao = 1

\* The state a cold start would hydrate from the store, and the state in
\* memory as its documents would be written (a property that holds undefined
\* is not written).
Hydrated(store) ==
  [user |-> hydrateUser(store),
   isAdmin |-> hydrateAdmin(store),
   gifts |-> hydrateGifts(store),
   confirmacoes |-> hydrateConfirmacoes(store),
   config |-> hydrateConfig(store)]
InMemory ==
  [user |-> IF user # Null THEN Some(JSONObject(user[1])) ELSE Null,
   isAdmin |-> isAdmin,
   gifts |-> JSONArray(gifts),
   confirmacoes |-> JSONArray(confirmacoes),
   config |-> JSONObject(config)]

\* C15: between user actions the gifts, the attendance records, the config,
\* the identity and the admin flag in memory are what a cold start would
\* hydrate from the store (document, or default when there is none); and a
\* reload leaves all five as they were.
C15_MemoryIsHydratedStore ==
  /\ [](InMemory = Hydrated(localStorage))
  /\ [][last'.op = "reload" => InMemory' = InMemory]_vars

\* C15 happens: the page has just been reloaded over a store that holds all
\* five documents, each one different from its default.
C15_Witness ==
  /\ last.op = "reload"
  /\ \A k \in DOMAIN localStorage : localStorage[k] # Null
  /\ user # Null /\ isAdmin
  /\ gifts # INITIAL_GIFTS /\ \E i \in Items : gifts[i].isReserved
  /\ Len(confirmacoes) = 1
  /\ config # DEFAULT_CONFIG

\* The value hydration is expected to give for a parsed document: what the
\* document parses to, or the default when it is absent or does not parse.
ParsedOr(doc, default) == IF doc # Null /\ parses(doc) THEN doc[1] ELSE default

\* C16: a cold start completes whatever the documents hold, and a document
\* that does not parse gives its default (seed catalog, empty list, default
\* config, no identity), as an absent one does.
C16_UnparsableFallsBack ==
  last.op = "mount" =>
    /\ last.ok
    /\ user = (IF localStorage.user # Null /\ parses(localStorage.user)
               THEN localStorage.user ELSE Null)
    /\ gifts = ParsedOr(localStorage.gifts, INITIAL_GIFTS)
    /\ confirmacoes = ParsedOr(localStorage.rsvp, <<>>)
    /\ config = ParsedOr(localStorage.config, DEFAULT_CONFIG)

\* C17: after a cold start over an empty store the catalog is the seed
\* catalog of 4 items, all available, the attendance list is empty, the
\* config is the built-in default, the admin flag is false and there is no
\* guest identity.
C17_EmptyStoreGivesDefaults ==
  (last.op = "mount" /\ localStorage = EmptyStorage) =>
    /\ last.ok
    /\ gifts = INITIAL_GIFTS /\ Len(gifts) = 4
    /\ \A i \in Items : ~gifts[i].isReserved /\ Prop(gifts[i], "reservedBy") = Undefined
    /\ confirmacoes = <<>>
    /\ config = DEFAULT_CONFIG
    /\ ~isAdmin
    /\ user = Null

\* C17 happens: the mount effect has run over the empty store.
C17_Witness ==
  /\ last.op = "mount" /\ last.ok
  /\ localStorage = EmptyStorage
  /\ GiftIds(gifts) = {<<"1">>, <<"2">>, <<"3">>, <<"4">>}

\* C18: authenticate(p) returns true, sets the admin flag and persists the
\* marker when p is the secret; for any other p it returns false and leaves
\* the flag, the marker and all other state as they were, whatever came
\* before.
C18_AuthenticateOnlyBySecret ==
  [][last'.op = "handleAdminLogin" =>
       \A password \in PasswordInputs :
         handleAdminLogin(password) =>
           IF password = ADMIN_PASSWORD
           THEN last'.ok /\ isAdmin' /\ localStorage'.admin = Some("true")
           ELSE /\ ~last'.ok
                /\ UNCHANGED <<appVars, uiVars, localStorage, authModal>>]_vars

\* C18 happens: a wrong password has just been refused to a signed-in guest,
\* and there is neither flag nor marker.
C18_Witness ==
  /\ last.op = "handleAdminLogin" /\ ~last.ok
  /\ ~isAdmin /\ localStorage.admin = Null
  /\ user # Null

\* C19: revoke, from any state, leaves the admin flag false and the store
\* without the admin marker, and leaves the guest identity, the catalog, the
\* attendance records and the config as they were, in memory and in the store.
C19_RevokeClearsFlagAndMarkerOnly ==
  [][last'.op = "handleAdminLogout" =>
       /\ ~isAdmin'
       /\ localStorage'.admin = Null
       /\ UNCHANGED <<user, gifts, confirmacoes, config>>
       /\ \A k \in {"user", "gifts", "rsvp", "config"} :
            localStorage'[k] = localStorage[k]]_vars

\* C19 happens: an open admin session has just been revoked in a state with
\* a guest identity, a changed catalog, an attendance record and a changed
\* config.
C19_Witness ==
  /\ last.op = "handleAdminLogout" /\ last.held
  /\ ~isAdmin /\ localStorage.admin = Null
  /\ user # Null
  /\ gifts # INITIAL_GIFTS
  /\ Len(confirmacoes) = 1
  /\ config # DEFAULT_CONFIG

\* C20: along the controls the page offers, the set of gifts in the catalog
\* and the event config change only in steps taken while the admin flag is
\* set, the admin panel with the guest list is shown only while it is set,
\* and the active tab is the admin panel only if it is set.
C20_AdminFlagGatesCatalogAndConfig ==
  /\ [](activeTab = "admin" => isAdmin)
  /\ [](adminPanelShown => isAdmin)
  /\ [][(\/ Len(gifts') # Len(gifts)
         \/ GiftIds(gifts') # GiftIds(gifts)
         \/ config' # config) => isAdmin]_vars

\* C20 happens: an administrator has removed a gift, added one and changed
\* the config, and has just closed the session; the signed-in guest is left
\* on another tab than the admin panel.
C20_Witness ==
  /\ last.op = "handleAdminLogout" /\ last.held
  /\ ~isAdmin /\ user # Null
  /\ activeTab # "admin"
  /\ \E id \in GiftIds(INITIAL_GIFTS) : id \notin GiftIds(gifts)
  /\ \E id \in ClockIds : id \in GiftIds(gifts)
  /\ config # DEFAULT_CONFIG

\* A config update has an empty date, time or deadline, an address of fewer
\* than 5 characters, or a map link that is neither empty nor a URL.
ConfigInvalid(data) ==
  \/ data.eventDate = "" \/ data.eventTime = "" \/ data.rsvpDeadline = ""
  \/ Len(data.location) < 5
  \/ data.locationLink \notin {Some(""), Some("https://maps.app.goo.gl/novo")}

\* C21: a config update with such values fails and leaves the config and
\* its persisted document as they were; any other update makes its values
\* the whole config and persists them.
C21_ConfigUpdateValidated ==
  [][last'.op = "onSaveConfig" =>
       LET data == last'.arg[1]
       IN IF ConfigInvalid(data)
          THEN /\ ~last'.ok
               /\ config' = config
               /\ localStorage'.config = localStorage.config
          ELSE /\ last'.ok
               /\ config' = data
               /\ hydrateConfig(localStorage') = data]_vars

\* C21 happens: after an accepted update, an update whose map link "mapa" is
\* no URL has just been refused, and the config is still the accepted one.
C21_Witness ==
  /\ last.op = "onSaveConfig" /\ ~last.ok
  /\ last.arg[1].locationLink = Some("mapa")
  /\ last.arg[1].eventDate # "" /\ Len(last.arg[1].location) >= 5
  /\ config # DEFAULT_CONFIG /\ config.eventDate = "2025-01-10"
  /\ localStorage.config = Some(config)

\* C22: guest sign-out leaves no identity in memory or in the store, and
\* leaves the attendance records, the catalog with its reservations, the
\* config and the admin marker as they were, in memory and in the store.
C22_SignOutClearsIdentityOnly ==
  [][last'.op = "handleLogout" =>
       /\ user' = Null /\ localStorage'.user = Null
       /\ \A k \in {"admin", "gifts", "rsvp", "config"} :
            localStorage'[k] = localStorage[k]
       /\ JSONArray(confirmacoes') = JSONArray(confirmacoes)
       /\ JSONArray(gifts') = JSONArray(gifts)
       /\ JSONObject(config') = JSONObject(config)
       /\ isAdmin' = isAdmin]_vars

\* C22 happens: a guest with an attendance record and a reservation has
\* just signed out, and the record, the reservation, a changed config and
\* the admin marker are all still there.
C22_Witness ==
  /\ last.op = "handleLogout" /\ last.held
  /\ user = Null /\ localStorage.user = Null
  /\ Len(confirmacoes) = 1
  /\ \E i \in Items : gifts[i].isReserved /\ Prop(gifts[i], "reservedBy") = Some("Maria Clara")
  /\ config # DEFAULT_CONFIG
  /\ isAdmin /\ localStorage.admin = Some("true")

\* C23: the attendance form is on the page only while the current time is not
\* past rsvpDeadline and the admin flag is off; so, along the controls the
\* page offers, no attendance record is created or changed at a time later
\* than rsvpDeadline.
C23_NoSubmitPastDeadline ==
  /\ [](submitOffered => (~pastDeadline(now) /\ ~isAdmin))
  /\ [][(last'.op = "onConfirmReservaPresenca" /\ last'.ok) => ~pastDeadline(now)]_vars

\* C24: reserve invoked while there is no guest identity changes neither the
\* catalog nor its persisted copy, and no item becomes reserved.
C24_ReserveWithoutIdentityIsNoOp ==
  [][(last'.op = "handleReserve" /\ user = Null) =>
       /\ gifts' = gifts
       /\ localStorage'.gifts = localStorage.gifts
       /\ \A i \in 1..Len(gifts') :
            gifts'[i].isReserved => (i \in Items /\ gifts[i].isReserved)]_vars

\* C24 happens: with nobody signed in, reserve has just been invoked on an
\* item of the catalog, which is still available, next to an item that an
\* earlier guest holds.
C24_Witness ==
  /\ last.op = "handleReserve" /\ ~last.ok
  /\ user = Null
  /\ \E i \in Items : gifts[i].id = last.arg /\ ~gifts[i].isReserved
  /\ \E i \in Items : gifts[i].isReserved

\* C25: along the reserve and cancel controls the page offers, an item goes
\* from available to reserved under one name and back only: no step takes a
\* reserved item to a reservation under another name, reserve runs only on
\* an item that is available and cancel only on one that is reserved.
C25_AvailableReservedAvailable ==
  [][/\ \A i \in Items : \A j \in 1..Len(gifts') :
          (gifts[i].isReserved /\ gifts'[j].id = gifts[i].id /\ gifts'[j].isReserved) =>
            Prop(gifts'[j], "reservedBy") = Prop(gifts[i], "reservedBy")
     /\ clickCancel =>
          \E i \in Items : gifts[i].id = last'.arg /\ gifts[i].isReserved
     /\ clickReserve =>
          \E i \in Items : gifts[i].id = last'.arg /\ ~gifts[i].isReserved]_vars

\* The contacts on the register whose session is treated as the holder of g:
\* the session of a registered contact takes the registered name
\* (lookupEffect), and isMine compares that name with g.reservedBy.
holderContacts(g) ==
  {confirmacoes[r].phone :
     r \in {q \in Records : Prop(g, "reservedBy") = Some(confirmacoes[q].name)}}

\* C26: every reserved item has at most one guest contact whose session is
\* treated as its holder, also when two contacts registered the same name.
C26_OneHolderContact ==
  \A i \in Items :
    gifts[i].isReserved => Cardinality(holderContacts(gifts[i])) <= 1

\* C27: once a contact has an attendance record, no step changes the name
\* stored in that contact's record, in the list or in its persisted copy:
\* every later submit for the contact writes the same name.
C27_RecordNameFixed ==
  [][/\ \A i \in Records : \A j \in 1..Len(confirmacoes') :
          confirmacoes'[j].phone = confirmacoes[i].phone =>
            confirmacoes'[j].name = confirmacoes[i].name
     /\ (localStorage.rsvp # Null /\ localStorage'.rsvp # Null) =>
          \A i \in 1..Len(localStorage.rsvp[1]) : \A j \in 1..Len(localStorage'.rsvp[1]) :
            localStorage'.rsvp[1][j].phone = localStorage.rsvp[1][i].phone =>
              localStorage'.rsvp[1][j].name = localStorage.rsvp[1][i].name]_vars

\* C27 happens: a contact on the list has signed out, come back typing
\* another name, and has just submitted again; another contact is on the
\* list too.
C27_Witness ==
  /\ last.op = "onConfirmReservaPresenca" /\ last.ok
  /\ last.typed # <<>>
  /\ Len(confirmacoes) = 2
  /\ \E i \in Records :
       /\ confirmacoes[i].phone = user[1].phone
       /\ confirmacoes[i].name # last.typed[1]
       /\ confirmacoes[i].date = now
       /\ lastSubmit[user[1].phone] # Null

\* C28: no step removes an attendance record: every contact that has a
\* record before a step has one after it, in the list and in its persisted
\* copy, and the number of records does not go down.
C28_NoRecordRemoved ==
  [][/\ \A i \in Records : \E j \in 1..Len(confirmacoes') :
          confirmacoes'[j].phone = confirmacoes[i].phone
     /\ Len(confirmacoes') >= Len(confirmacoes)
     /\ localStorage.rsvp # Null =>
          /\ localStorage'.rsvp # Null
          /\ Len(localStorage'.rsvp[1]) >= Len(localStorage.rsvp[1])
          /\ \A i \in 1..Len(localStorage.rsvp[1]) : \E j \in 1..Len(localStorage'.rsvp[1]) :
               localStorage'.rsvp[1][j].phone = localStorage.rsvp[1][i].phone]_vars

\* C28 happens: the guest's record is still on the list after the guest
\* signed out, the catalog and the config were changed, and the admin has
\* just logged out.
C28_Witness ==
  /\ last.op = "handleAdminLogout" /\ last.held
  /\ user = Null
  /\ Len(confirmacoes) = 1 /\ confirmacoes[1].phone = PHONE_A
  /\ localStorage.rsvp # Null /\ Len(localStorage.rsvp[1]) = 1
  /\ config # DEFAULT_CONFIG
  /\ Len(gifts) # Len(INITIAL_GIFTS)

\* The entries of the catalog whose isReserved or reservedBy a step changes.
changedEntries ==
  {i \in Items :
     i <= Len(gifts') =>
       \/ gifts'[i].isReserved # gifts[i].isReserved
       \/ Prop(gifts'[i], "reservedBy") # Prop(gifts[i], "reservedBy")}

\* C29: reserve(id) and cancel(id) keep the length and the order of the
\* catalog and change isReserved or reservedBy of at most one entry, in every
\* catalog that addItem and removeItem build from the seed.
C29_ReserveCancelTouchOneEntry ==
  [][last'.op \in {"handleReserve", "handleCancelReserve"} =>
       /\ Len(gifts') = Len(gifts)
       /\ \A i \in Items : gifts'[i].id = gifts[i].id
       /\ Cardinality(changedEntries) <= 1]_vars

\* C30: a guest who has an attendance record and holds reservations signs
\* out; at the next identity submission with the same contact, whatever name
\* was typed, the items treated as the guest's own (myGifts) are those of
\* before the sign-out, when no cancel and no remove happened in between.
C30_ReservationsKeptAcrossReentry ==
  [][(/\ last'.op = "submitIdentity" /\ last'.ok
      /\ leftBehind # Null /\ leftBehind' = Null
      /\ user'[1].phone = leftBehind[1].phone) =>
       /\ GiftIds(myGifts)' = leftBehind[1].mine
       /\ Len(myGifts)' = Cardinality(leftBehind[1].mine)]_vars

====
